---- MODULE Spec2Model ----
(***************************************************************************)
(* RigMonitor (src/main.py): the synthetic sensor-data generator           *)
(* generate_sensor_data and the Dash callbacks that call it.               *)
(*                                                                         *)
(* Units.  Time is counted in whole minutes since an arbitrary epoch.      *)
(* Values are fixed-point with Scale steps to the unit: a pressure of      *)
(* 79.5 psi is 79.5 * Scale, the threshold 80 psi is 80 * Scale.  The unit *)
(* of a corrosion value is a hundredth of a mm/year (0.1 is 10 * Scale,    *)
(* 0.4 is 40 * Scale); the unit of every other category is its own (psi,   *)
(* degrees C, dB, L/min).                                                  *)
(*                                                                         *)
(* Inputs of the environment.  Every call of generate_sensor_data reads    *)
(* the clock once, and draws its values (np.random.uniform) and its        *)
(* corrosion types (np.random.choice) from the generator's stream.  The    *)
(* clock readings and the two streams are parameters of the operators and  *)
(* of the actions: the readings are independent of one another, values of  *)
(* types, and the result is defined for any stream.  A stream is given by  *)
(* one period of it.                                                       *)
(*                                                                         *)
(* The generators.  np.random and random are the global generators of      *)
(* their modules, seeded by the operating system at import and never       *)
(* reseeded: each puts out one arbitrary sequence, and every draw moves    *)
(* its position in that sequence on by one.  The positions are state of    *)
(* the process, kept from one invocation to the next.  Every call to a     *)
(* generator reads the part of the sequence that starts at the position it *)
(* finds and moves the position past it.  No two calls read the same part, *)
(* whether they belong to one invocation, to invocations that follow one   *)
(* another, or to invocations running at once on two threads: the streams  *)
(* of an invocation are the parts its calls read, in the order of its      *)
(* calls, and are inputs of their own.                                     *)
(***************************************************************************)
EXTENDS Integers, Sequences, FiniteSets, TLC

VARIABLES
    app,            \* module level: the Dash app, its layout and its registered callbacks
    np_random,      \* module level: the draws taken from numpy's global generator since import
    random,         \* module level: the draws taken from the random module's generator since import
    serving,        \* the process: app.run_server is running
    running,        \* the process: the invocation in progress on each thread
    call,           \* the invocation that returned last, with the inputs it read
    raised,         \* the exception it propagated, "none" when it returned
    sensor_data,    \* the DataFrame generate_sensor_data returned (detailed_data in a details callback)
    df,             \* bar-chart callbacks: the concatenation of the ten series
    current_values, \* bar-chart callbacks: df.groupby('Sensor ID').last().reset_index()
    fig,            \* bar-chart callbacks: the traces of the returned figure
    children        \* details callbacks: the returned component

vars ==
    <<app, np_random, random, serving, running, call, raised, sensor_data, df,
      current_values, fig, children>>

----------------------------------------------------------------------------
\* Bounds of the explored inputs.

MaxHours == 1
MaxInterval == 12
MaxSensorId == 0
MaxNow == 1

\* Steps of the value grid per unit.
Scale == 2

\* The period of the value streams, and of the type streams, that are
\* enumerated in full.
FreeDraws == 2
FreeTypes == 2

\* Calls of the importing program later than the first are explored as long
\* as the draws taken since import, from both generators together, stay
\* within MaxDrawn.
MaxDrawn == 2

\* Requests are dispatched as long as the draws taken since the server
\* started stay within MaxServed, the draws of the four bar charts of one
\* tick.
MaxServed == 350

\* The threads that run invocations at once.
Threads == {"thread-1", "thread-2"}

----------------------------------------------------------------------------
\* Program constants.

\* sensor_id=None (the default argument), and clickData=None before any click.
None == -1

\* interval_minutes=10, the default argument.
DefaultInterval == 10

\* range(10) in the bar-chart callbacks.
NumSensors == 10

\* hours=1 in the bar-chart callbacks.
ChartHours == 1

\* hours=24 in the details callbacks.
DetailHours == 24

\* interval_minutes=10 in every callback.
CallbackInterval == 10

CorrosionTypes == <<"Uniform", "Pitting", "Galvanic", "Crevice">>

WorkingTypes == {"corrosion", "pressure", "temperature", "acoustic"}

\* The sensor types the docstring allows.
DocumentedTypes == WorkingTypes \cup {"flow_rate"}

\* The sensor types a caller is let to pass: the documented ones and one more.
SensorTypes == DocumentedTypes \cup {"vibration"}

\* The ids of the components of app.layout.
Layout ==
    {"interval-component",
     "corrosion-sensor-bar-chart", "corrosion-sensor-details",
     "pressure-sensor-bar-chart", "pressure-sensor-details",
     "temperature-sensor-bar-chart", "temperature-sensor-details",
     "acoustic-sensor-bar-chart", "acoustic-sensor-details",
     "flow-rate-sensor-bar-chart", "flow-rate-sensor-details"}

\* The callbacks the decorators register at import time.
Callbacks ==
    {"update_corrosion_bar_chart", "display_corrosion_sensor_details",
     "update_pressure_bar_chart", "display_pressure_sensor_details",
     "update_temperature_bar_chart", "display_temperature_sensor_details",
     "update_acoustic_bar_chart", "display_acoustic_sensor_details"}

----------------------------------------------------------------------------
\* The value range [Low, High) each category draws from.

Low(sensor_type) ==
    CASE sensor_type = "corrosion" -> 0
      [] sensor_type = "pressure" -> 0
      [] sensor_type = "temperature" -> -50 * Scale
      [] sensor_type = "acoustic" -> 40 * Scale
      [] OTHER -> 0

High(sensor_type) ==
    CASE sensor_type = "corrosion" -> 100 * Scale
      [] sensor_type = "pressure" -> 100 * Scale
      [] sensor_type = "temperature" -> 150 * Scale
      [] sensor_type = "acoustic" -> 120 * Scale
      [] OTHER -> 1000 * Scale

ValueRange(sensor_type) == Low(sensor_type)..(High(sensor_type) - 1)

\* np.random.uniform(low, high, size) and np.random.choice(a, size): the next
\* size draws of the stream, offset draws of it having been taken before.
\* Every draw is what the stream holds at its position, whatever the draws
\* before it were.
Draw(stream, offset, size) ==
    [k \in 1..size |-> stream[((offset + k - 1) % Len(stream)) + 1]]

----------------------------------------------------------------------------
\* pd.date_range(start, end, freq): the instants start, start + freq,
\* start + 2*freq, ... that are not after end, in ascending order.  There are
\* as many as it takes for the next one to fall after end.

DateRangeOpenEnd(start, end, freq) ==
    [k \in 1..(IF end > start THEN ((end - start - 1) \div freq) + 1 ELSE 0)
        |-> start + (k - 1) * freq]

DateRangeFromEnd(start, end, freq) ==
    LET n == IF end >= start THEN ((end - start) \div freq) + 1 ELSE 0
    IN  [k \in 1..n |-> end - (n - k) * freq]

DateRange(start, end, freq) ==
    LET periods ==
            IF end < start
            THEN 0
            ELSE CHOOSE n \in 1..(end - start + 1) :
                    /\ start + (n - 1) * freq <= end
                    /\ end < start + n * freq
    IN  [k \in 1..periods |-> start + (k - 1) * freq]

----------------------------------------------------------------------------
\* The status of a value, one operator per branch of generate_sensor_data.

CorrosionStatus(v) ==
    IF v < 10 * Scale
    THEN "Good"
    ELSE IF v < 40 * Scale THEN "Concern" ELSE "Malfunction"

PressureStatusInclusive(v) ==
    IF v <= 80 * Scale
    THEN "Good"
    ELSE IF v < 95 * Scale THEN "Concern" ELSE "Malfunction"

PressureStatus(v) ==
    IF v < 80 * Scale
    THEN "Good"
    ELSE IF v < 95 * Scale THEN "Concern" ELSE "Malfunction"

TemperatureStatusInclusive(v) ==
    IF (-20 * Scale <= v) /\ (v <= 120 * Scale)
    THEN "Good"
    ELSE IF (-40 * Scale < v) /\ (v < 140 * Scale)
         THEN "Concern"
         ELSE "Malfunction"

TemperatureStatus(v) ==
    IF (-20 * Scale < v) /\ (v < 120 * Scale)
    THEN "Good"
    ELSE IF (-40 * Scale < v) /\ (v < 140 * Scale)
         THEN "Concern"
         ELSE "Malfunction"

AcousticStatus(v) ==
    LET good_min == 60 * Scale
        good_max == 90 * Scale
        concern_min == 50 * Scale
        concern_max == 100 * Scale
    IN  IF (good_min <= v) /\ (v <= good_max)
        THEN "Good"
        ELSE IF (concern_min <= v) /\ (v <= concern_max)
             THEN "Concern"
             ELSE "Malfunction"

FlowRateStatus(v) ==
    IF (100 * Scale < v) /\ (v < 900 * Scale)
    THEN "Good"
    ELSE IF (50 * Scale < v) /\ (v < 950 * Scale)
         THEN "Concern"
         ELSE "Malfunction"

\* The status the branch of a sensor type gives a value.
StatusOf(sensor_type, v) ==
    CASE sensor_type = "corrosion" -> CorrosionStatus(v)
      [] sensor_type = "pressure" -> PressureStatus(v)
      [] sensor_type = "temperature" -> TemperatureStatus(v)
      [] sensor_type = "acoustic" -> AcousticStatus(v)
      [] sensor_type = "flow_rate" -> FlowRateStatus(v)

----------------------------------------------------------------------------
\* One row of the DataFrame a branch builds: the columns Time, Sensor ID,
\* Value, Status and, in the corrosion branch only, Type.

RowTyped(t, sensor_id, v, status, type) ==
    [Time |-> t, SensorID |-> sensor_id, Value |-> v, Status |-> status,
     Type |-> type]

RowAlwaysTyped(t, sensor_id, v, status) ==
    RowTyped(t, sensor_id, v, status, CorrosionTypes[1])

Row(t, sensor_id, v, status) ==
    [Time |-> t, SensorID |-> sensor_id, Value |-> v, Status |-> status]

\* The rows of the four-column frame of the pressure, temperature and
\* acoustic branches.
Frame(time_range, sensor_id, values, status) ==
    [k \in 1..Len(time_range)
        |-> Row(time_range[k], sensor_id, values[k], status[k])]

\* generate_sensor_data(sensor_type, hours, interval_minutes, sensor_id), with
\* what it reads from the environment as further inputs: the clock reading
\* now, the stream its values are drawn from, the stream its corrosion types
\* are drawn from, and the number of draws taken from the streams before.  It
\* yields the exception raised ("none" on return) and the frame returned.
generate_sensor_data(sensor_type, hours, interval_minutes, sensor_id, now, values_stream, types_stream, offset) ==
    LET time_range == DateRange(now - hours * 60, now, interval_minutes)
        size == Len(time_range)
        values == Draw(values_stream, offset, size)
    IN  IF sensor_type = "corrosion"
        THEN LET status == [k \in 1..size |-> CorrosionStatus(values[k])]
                 corrosion_types == Draw(types_stream, offset, size)
             IN  [raised |-> "none",
                  sensor_data |->
                      [k \in 1..size |->
                          RowTyped(time_range[k], sensor_id, values[k],
                                   status[k], corrosion_types[k])]]
        ELSE IF sensor_type = "pressure"
        THEN LET status == [k \in 1..size |-> PressureStatus(values[k])]
             IN  [raised |-> "none",
                  sensor_data |-> Frame(time_range, sensor_id, values, status)]
        ELSE IF sensor_type = "temperature"
        THEN LET status == [k \in 1..size |-> TemperatureStatus(values[k])]
             IN  [raised |-> "none",
                  sensor_data |-> Frame(time_range, sensor_id, values, status)]
        ELSE IF sensor_type = "acoustic"
        THEN LET status == [k \in 1..size |-> AcousticStatus(values[k])]
             IN  [raised |-> "none",
                  sensor_data |-> Frame(time_range, sensor_id, values, status)]
        ELSE IF sensor_type = "flow_rate"
        THEN \* value and status are computed, then sensor_data.append reads the
             \* local sensor_data, which no branch has bound.
             LET value == Draw(values_stream, offset, 1)[1]
                 status == FlowRateStatus(value)
             IN  [raised |-> "UnboundLocalError", sensor_data |-> <<>>]
        ELSE \* no branch taken: return sensor_data reads the unbound local.
             [raised |-> "UnboundLocalError", sensor_data |-> <<>>]

\* len(time_range) of a call: the clock reading moves the range and leaves
\* its length alone.
Readings(hours, interval_minutes) ==
    Len(DateRange(0, hours * 60, interval_minutes))

\* The draws a call of generate_sensor_data takes from numpy's generator:
\* np.random.uniform(low, high, len(time_range)) in the corrosion, pressure,
\* temperature and acoustic branches, and np.random.choice(...,
\* len(time_range)) on top of it in the corrosion branch.
NpDraws(sensor_type, hours, interval_minutes) ==
    IF sensor_type = "corrosion"
    THEN 2 * Readings(hours, interval_minutes)
    ELSE IF sensor_type \in WorkingTypes
         THEN Readings(hours, interval_minutes)
         ELSE 0

\* The draws it takes from the random module's generator: the one
\* random.uniform(0, 1000) of the flow_rate branch, taken before the failure.
PyDraws(sensor_type) == IF sensor_type = "flow_rate" THEN 1 ELSE 0

----------------------------------------------------------------------------
\* df.groupby('Sensor ID').last().reset_index(): one row per distinct
\* non-null Sensor ID, the groups in ascending order of the key, each column
\* holding its last non-null entry within the group.  No column of a
\* generated frame holds a null, so that is the group's last row.

RECURSIVE SortAsc(_)
SortAsc(S) ==
    IF S = {}
    THEN <<>>
    ELSE LET m == CHOOSE x \in S : \A y \in S : x <= y
         IN  <<m>> \o SortAsc(S \ {m})

GroupKeys(frame) ==
    SortAsc({frame[i].SensorID : i \in DOMAIN frame} \ {None})

GroupByFirst(frame) ==
    LET keys == GroupKeys(frame)
        first(id) == LET group == {i \in DOMAIN frame : frame[i].SensorID = id}
                     IN  CHOOSE i \in group : \A j \in group : i <= j
    IN  [g \in 1..Len(keys) |-> frame[first(keys[g])]]

GroupByLast(frame) ==
    LET keys == GroupKeys(frame)
        last(id) == LET group == {i \in DOMAIN frame : frame[i].SensorID = id}
                    IN  CHOOSE i \in group : \A j \in group : j <= i
    IN  [g \in 1..Len(keys) |-> frame[last(keys[g])]]

\* lambda x: 'green' if x == "Good" else 'orange' if x == "Concern" else 'red'
MarkerColor(x) ==
    IF x = "Good" THEN "green" ELSE IF x = "Concern" THEN "orange" ELSE "red"

\* pd.concat([generate_sensor_data(sensor_type, hours=1, interval_minutes=10,
\* sensor_id=i) for i in range(10)]): frame holds the series of the
\* identities below i, and the series from identity i on are appended to it.
\* Each call reads the clock for itself (clock[i + 1] is the reading of the
\* call for identity i) and draws from the streams where the call before
\* stopped, one draw of each stream having gone into every row of frame.
RECURSIVE ConcatSeries(_, _, _, _, _, _)
ConcatSeries(sensor_type, i, clock, values_stream, types_stream, frame) ==
    IF i >= NumSensors
    THEN frame
    ELSE ConcatSeries(sensor_type, i + 1, clock, values_stream, types_stream,
             frame \o generate_sensor_data(sensor_type, ChartHours,
                          CallbackInterval, i, clock[i + 1], values_stream,
                          types_stream, Len(frame)).sensor_data)

\* go.Bar(x=current_values['Sensor ID'], y=current_values['Value'],
\* marker_color=current_values['Status'].apply(...)): one trace, unnamed, a
\* colour per bar.
BarTrace(rows) ==
    [x |-> [k \in 1..Len(rows) |-> rows[k].SensorID],
     y |-> [k \in 1..Len(rows) |-> rows[k].Value],
     marker_color |-> [k \in 1..Len(rows) |-> MarkerColor(rows[k].Status)]]

SingleTraceFigure(rows) == <<BarTrace(rows)>>

\* go.Bar(x=filtered_df['Sensor ID'], y=filtered_df['Value'],
\* marker_color=color, name=status): a trace named after a status, in the one
\* colour of the status.
StatusBarTrace(name, rows, color) ==
    [name |-> name,
     x |-> [k \in 1..Len(rows) |-> rows[k].SensorID],
     y |-> [k \in 1..Len(rows) |-> rows[k].Value],
     marker_color |-> color]

\* The pressure chart: one trace per status, over the rows of that status.
StatusTraceFigure(rows) ==
    LET statuses == <<"Good", "Concern", "Malfunction">>
        colors == <<"green", "orange", "red">>
        filtered(s) == SelectSeq(rows, LAMBDA r : r.Status = s)
    IN  [t \in 1..3 |->
            StatusBarTrace(statuses[t], filtered(statuses[t]), colors[t])]

\* go.Scatter(x=detailed_data['Time'], y=detailed_data['Value'],
\* marker_color=detailed_data['Status'].apply(...)), detailed_data being the
\* frame generate_sensor_data returned to the callback.
LineChart(detailed_data) ==
    [x |-> [k \in 1..Len(detailed_data) |-> detailed_data[k].Time],
     y |-> [k \in 1..Len(detailed_data) |-> detailed_data[k].Value],
     marker_color |->
         [k \in 1..Len(detailed_data) |-> MarkerColor(detailed_data[k].Status)]]

\* detailed_data['Type'].unique(): the types in order of first appearance.
UniqueTypes(detailed_data) ==
    LET firsts == {i \in DOMAIN detailed_data :
                      \A j \in 1..(i - 1) : detailed_data[j].Type # detailed_data[i].Type}
        nth(k) == CHOOSE i \in firsts : Cardinality({j \in firsts : j <= i}) = k
    IN  [k \in 1..Cardinality(firsts) |-> detailed_data[nth(k)].Type]

----------------------------------------------------------------------------
\* State.

UpdateCallbacks ==
    {"update_corrosion_bar_chart", "update_pressure_bar_chart",
     "update_temperature_bar_chart", "update_acoustic_bar_chart"}

DetailCallbacks ==
    {"display_corrosion_sensor_details", "display_pressure_sensor_details",
     "display_temperature_sensor_details", "display_acoustic_sensor_details"}

\* The sensor type a callback passes to generate_sensor_data.
TypeOf(op) ==
    CASE op \in {"update_corrosion_bar_chart", "display_corrosion_sensor_details"}
            -> "corrosion"
      [] op \in {"update_pressure_bar_chart", "display_pressure_sensor_details"}
            -> "pressure"
      [] op \in {"update_temperature_bar_chart", "display_temperature_sensor_details"}
            -> "temperature"
      [] op \in {"update_acoustic_bar_chart", "display_acoustic_sensor_details"}
            -> "acoustic"

\* An invocation in progress on a thread: the function entered, the arguments
\* that reach generate_sensor_data (sensor_id is clickData in a details
\* callback), and drawn, the calls it has made so far to a generator.
Invocation(op, sensor_type, hours, interval_minutes, sensor_id) ==
    [op |-> op, sensor_type |-> sensor_type, hours |-> hours,
     interval_minutes |-> interval_minutes, sensor_id |-> sensor_id,
     drawn |-> 0]

\* The invocation of a callback: a bar-chart callback asks for ChartHours of
\* every identity, a details callback for DetailHours of the clicked one.
CallbackInvocation(op, clickData) ==
    IF op \in UpdateCallbacks
    THEN Invocation(op, TypeOf(op), ChartHours, CallbackInterval, None)
    ELSE Invocation(op, TypeOf(op), DetailHours, CallbackInterval, clickData)

\* A thread that is in no function of the module.
NoInvocation == Invocation("idle", "", 0, 0, None)

\* The calls of generate_sensor_data an invocation makes: ten in a bar-chart
\* callback, one in a details callback after a click and none before, and the
\* call itself when generate_sensor_data is called from outside.
Series(inv) ==
    IF inv.op \in UpdateCallbacks
    THEN NumSensors
    ELSE IF inv.op \in DetailCallbacks
         THEN IF inv.sensor_id = None THEN 0 ELSE 1
         ELSE IF inv.op = "generate_sensor_data" THEN 1 ELSE 0

\* The calls to a generator one call of generate_sensor_data makes:
\* np.random.uniform and np.random.choice in the corrosion branch,
\* np.random.uniform in the pressure, temperature and acoustic branches,
\* random.uniform in the flow_rate branch, none when no branch is taken.
GeneratorCalls(sensor_type) ==
    IF sensor_type = "corrosion"
    THEN 2
    ELSE IF sensor_type \in DocumentedTypes THEN 1 ELSE 0

\* The calls to a generator an invocation makes before it returns or raises.
DrawCalls(inv) == Series(inv) * GeneratorCalls(inv.sensor_type)

\* The draws an invocation has still to take from the two generators.
Pending(inv) ==
    IF inv.drawn = DrawCalls(inv)
    THEN 0
    ELSE (DrawCalls(inv) - inv.drawn)
            * (IF inv.sensor_type = "flow_rate"
               THEN 1
               ELSE Readings(inv.hours, inv.interval_minutes))

\* clock holds the clock readings of the invocation, one per call of
\* generate_sensor_data it makes, in the order of the calls.
CallRecord(op, sensor_type, hours, interval_minutes, sensor_id, clock, values_stream, types_stream) ==
    [op |-> op, sensor_type |-> sensor_type, hours |-> hours,
     interval_minutes |-> interval_minutes, sensor_id |-> sensor_id,
     clock |-> clock, values_stream |-> values_stream,
     types_stream |-> types_stream]

\* No returned value is on its way to a caller.
NoCall == CallRecord("idle", "", 0, 0, None, <<>>, <<>>, <<>>)

Idle == call.op = "idle"

\* The app as the module leaves it at import.
Dash == [layout |-> Layout, callback_map |-> Callbacks]

\* The module after its top level has run: the app is built, the layout is
\* set and the callbacks are registered; nothing has been called and nothing
\* drawn.  Run as a script (__name__ == '__main__') the top level ends in
\* app.run_server and the server is up; imported, it is not.
Init ==
    /\ app = Dash
    /\ serving \in BOOLEAN
    /\ np_random = 0
    /\ random = 0
    /\ running = [t \in Threads |-> NoInvocation]
    /\ call = NoCall
    /\ raised = "none"
    /\ sensor_data = <<>>
    /\ df = <<>>
    /\ current_values = <<>>
    /\ fig = <<>>
    /\ children = <<>>

Locals == <<call, raised, sensor_data, df, current_values, fig, children>>

\* A thread is free to take a request.
Free == \E t \in Threads : running[t] = NoInvocation

\* No invocation is in progress and no returned value on its way.
Quiet == Idle /\ \A t \in Threads : running[t] = NoInvocation

----------------------------------------------------------------------------
\* Entering a function of the module.

\* The importing program calls generate_sensor_data, or a callback as the
\* plain function the decorator hands back.  It is one thread, and calls one
\* function at a time.
Call(inv) ==
    /\ ~serving
    /\ Quiet
    /\ running' = [running EXCEPT ![CHOOSE t \in Threads : TRUE] = inv]
    /\ UNCHANGED <<app, serving, np_random, random, Locals>>

\* app.run_server(debug=True): the development server hands every request to
\* a thread of its own, and nothing in the module makes a request wait for
\* another.  The browser requests the four bar-chart callbacks together at
\* every tick of the interval component, and a details callback at a click.
Dispatch(inv) ==
    /\ serving
    /\ Idle
    /\ Free
    /\ running' = [running EXCEPT
                      ![CHOOSE t \in Threads : running[t] = NoInvocation] = inv]
    /\ UNCHANGED <<app, serving, np_random, random, Locals>>

----------------------------------------------------------------------------
\* The calls to the generators.  A call is one step of its thread: the
\* generator hands out the next size values of its sequence and moves its
\* position past them.  The values are the thread's own from then on; they
\* come into the state with the value the invocation returns.

\* As NpRandom, with np.random.seed(0) ahead of the draw: the generator is put
\* back to the start of one fixed sequence.
NpRandomReseeded(t) ==
    /\ Idle
    /\ running[t].sensor_type \in WorkingTypes
    /\ running[t].drawn < DrawCalls(running[t])
    /\ np_random' = Readings(running[t].hours, running[t].interval_minutes)
    /\ running' = [running EXCEPT ![t].drawn = @ + 1]
    /\ UNCHANGED <<app, serving, random, Locals>>

\* np.random.uniform(low, high, len(time_range)) and
\* np.random.choice([...], len(time_range)).
NpRandom(t) ==
    /\ Idle
    /\ running[t].sensor_type \in WorkingTypes
    /\ running[t].drawn < DrawCalls(running[t])
    /\ np_random' = np_random
          + Readings(running[t].hours, running[t].interval_minutes)
    /\ running' = [running EXCEPT ![t].drawn = @ + 1]
    /\ UNCHANGED <<app, serving, random, Locals>>

\* random.uniform(0, 1000), in the flow_rate branch.
RandomUniform(t) ==
    /\ Idle
    /\ running[t].sensor_type = "flow_rate"
    /\ running[t].drawn < DrawCalls(running[t])
    /\ random' = random + 1
    /\ running' = [running EXCEPT ![t].drawn = @ + 1]
    /\ UNCHANGED <<app, serving, np_random, Locals>>

\* The invocation of op on thread t has made all its calls to the generators:
\* what is left of it touches nothing but its locals.
Drawn(t, op) ==
    /\ Idle
    /\ running[t].op = op
    /\ running[t].drawn = DrawCalls(running[t])

----------------------------------------------------------------------------
\* generate_sensor_data called from outside the callbacks: the rest of the
\* call, from its last draw to its return or its exception.  now is the clock
\* reading of the call, the streams hold the values its draws gave it.

Generate(t, now, values_stream, types_stream) ==
    LET inv == running[t]
        r == generate_sensor_data(inv.sensor_type, inv.hours,
                                  inv.interval_minutes, inv.sensor_id, now,
                                  values_stream, types_stream, 0)
    IN  /\ Drawn(t, "generate_sensor_data")
        /\ call' = CallRecord("generate_sensor_data", inv.sensor_type,
                              inv.hours, inv.interval_minutes, inv.sensor_id,
                              <<now>>, values_stream, types_stream)
        /\ raised' = r.raised
        /\ sensor_data' = r.sensor_data
        /\ df' = <<>>
        /\ current_values' = <<>>
        /\ fig' = <<>>
        /\ children' = <<>>
        /\ running' = [running EXCEPT ![t] = NoInvocation]
        /\ UNCHANGED <<app, serving, np_random, random>>

----------------------------------------------------------------------------
\* The bar-chart callbacks, fired by the interval component: the rest of the
\* invocation, from its last draw to its return.  The argument n
\* (n_intervals) is not read by any of them and is left out.  clock holds the
\* ten clock readings of the ten calls of generate_sensor_data, the streams
\* the values the draws of the invocation gave it, in the order it took them.

update_corrosion_bar_chart(t, clock, values_stream, types_stream) ==
    /\ Drawn(t, "update_corrosion_bar_chart")
    /\ call' = CallRecord("update_corrosion_bar_chart", "corrosion", ChartHours,
                          CallbackInterval, None, clock, values_stream, types_stream)
    /\ raised' = "none"
    /\ df' = ConcatSeries("corrosion", 0, clock, values_stream, types_stream, <<>>)
    /\ current_values' = GroupByLast(df')
    /\ fig' = SingleTraceFigure(current_values')
    /\ sensor_data' = <<>>
    /\ children' = <<>>
    /\ running' = [running EXCEPT ![t] = NoInvocation]
    /\ UNCHANGED <<app, serving, np_random, random>>

update_pressure_bar_chart(t, clock, values_stream) ==
    /\ Drawn(t, "update_pressure_bar_chart")
    /\ call' = CallRecord("update_pressure_bar_chart", "pressure", ChartHours,
                          CallbackInterval, None, clock, values_stream, <<>>)
    /\ raised' = "none"
    /\ df' = ConcatSeries("pressure", 0, clock, values_stream, <<>>, <<>>)
    /\ current_values' = GroupByLast(df')
    /\ fig' = StatusTraceFigure(current_values')
    /\ sensor_data' = <<>>
    /\ children' = <<>>
    /\ running' = [running EXCEPT ![t] = NoInvocation]
    /\ UNCHANGED <<app, serving, np_random, random>>

update_temperature_bar_chart(t, clock, values_stream) ==
    /\ Drawn(t, "update_temperature_bar_chart")
    /\ call' = CallRecord("update_temperature_bar_chart", "temperature", ChartHours,
                          CallbackInterval, None, clock, values_stream, <<>>)
    /\ raised' = "none"
    /\ df' = ConcatSeries("temperature", 0, clock, values_stream, <<>>, <<>>)
    /\ current_values' = GroupByLast(df')
    /\ fig' = SingleTraceFigure(current_values')
    /\ sensor_data' = <<>>
    /\ children' = <<>>
    /\ running' = [running EXCEPT ![t] = NoInvocation]
    /\ UNCHANGED <<app, serving, np_random, random>>

update_acoustic_bar_chart(t, clock, values_stream) ==
    /\ Drawn(t, "update_acoustic_bar_chart")
    /\ call' = CallRecord("update_acoustic_bar_chart", "acoustic", ChartHours,
                          CallbackInterval, None, clock, values_stream, <<>>)
    /\ raised' = "none"
    /\ df' = ConcatSeries("acoustic", 0, clock, values_stream, <<>>, <<>>)
    /\ current_values' = GroupByLast(df')
    /\ fig' = SingleTraceFigure(current_values')
    /\ sensor_data' = <<>>
    /\ children' = <<>>
    /\ running' = [running EXCEPT ![t] = NoInvocation]
    /\ UNCHANGED <<app, serving, np_random, random>>

----------------------------------------------------------------------------
\* The details callbacks, fired by a click on a bar (clickData is the x of the
\* clicked point, a sensor identity) and once at page load with clickData=None,
\* when they return None without calling generate_sensor_data: the rest of
\* the invocation, from its last draw to its return.

display_corrosion_sensor_details(t, now, values_stream, types_stream) ==
    LET clickData == running[t].sensor_id
    IN  /\ Drawn(t, "display_corrosion_sensor_details")
        /\ call' = CallRecord("display_corrosion_sensor_details", "corrosion",
                              DetailHours, CallbackInterval, clickData,
                              IF clickData = None THEN <<>> ELSE <<now>>,
                              values_stream, types_stream)
        /\ raised' = "none"
        /\ sensor_data' =
              IF clickData = None
              THEN <<>>
              ELSE generate_sensor_data("corrosion", DetailHours,
                       CallbackInterval, clickData, now, values_stream,
                       types_stream, 0).sensor_data
        /\ children' =
              IF clickData = None
              THEN <<>>
              ELSE <<[line_chart |-> LineChart(sensor_data'),
                      sensor_id |-> clickData,
                      corrosion_types |-> UniqueTypes(sensor_data')]>>
        /\ df' = <<>>
        /\ current_values' = <<>>
        /\ fig' = <<>>
        /\ running' = [running EXCEPT ![t] = NoInvocation]
        /\ UNCHANGED <<app, serving, np_random, random>>

\* The body the pressure, temperature and acoustic details callbacks share
\* (the acoustic one passes int(sensor_id), the same identity).
DisplayDetails(op, sensor_type, t, now, values_stream) ==
    LET clickData == running[t].sensor_id
    IN  /\ Drawn(t, op)
        /\ call' = CallRecord(op, sensor_type, DetailHours, CallbackInterval,
                              clickData,
                              IF clickData = None THEN <<>> ELSE <<now>>,
                              values_stream, <<>>)
        /\ raised' = "none"
        /\ sensor_data' =
              IF clickData = None
              THEN <<>>
              ELSE generate_sensor_data(sensor_type, DetailHours,
                       CallbackInterval, clickData, now, values_stream, <<>>,
                       0).sensor_data
        /\ children' =
              IF clickData = None
              THEN <<>>
              ELSE <<[line_chart |-> LineChart(sensor_data')]>>
        /\ df' = <<>>
        /\ current_values' = <<>>
        /\ fig' = <<>>
        /\ running' = [running EXCEPT ![t] = NoInvocation]
        /\ UNCHANGED <<app, serving, np_random, random>>

display_pressure_sensor_details(t, now, values_stream) ==
    DisplayDetails("display_pressure_sensor_details", "pressure", t, now,
                   values_stream)

display_temperature_sensor_details(t, now, values_stream) ==
    DisplayDetails("display_temperature_sensor_details", "temperature", t,
                   now, values_stream)

display_acoustic_sensor_details(t, now, values_stream) ==
    DisplayDetails("display_acoustic_sensor_details", "acoustic", t, now,
                   values_stream)

----------------------------------------------------------------------------
\* The caller (the importing program, or the server writing the response)
\* takes the returned value, and the locals of the invocation are gone; the
\* app, the generators and the invocations in progress on other threads stay
\* as they are.  Handing a value over touches nothing the threads share, so
\* the steps of the other threads are taken before it or after it.

Discard ==
    /\ ~Idle
    /\ call' = NoCall
    /\ raised' = "none"
    /\ sensor_data' = <<>>
    /\ df' = <<>>
    /\ current_values' = <<>>
    /\ fig' = <<>>
    /\ children' = <<>>
    /\ UNCHANGED <<app, serving, np_random, random, running>>

----------------------------------------------------------------------------
\* The inputs explored.

Hours == 0..MaxHours
Intervals == 1..MaxInterval
SensorIds == {None} \cup (0..MaxSensorId)
Clock == 0..MaxNow
ClickData == {None} \cup (0..(NumSensors - 1))

\* The clock readings of a callback that calls generate_sensor_data n times:
\* one minute of the clock at every call, or minute 0 at the first calls and,
\* the minute having passed, minute 1 at the others.
ClockReads(n) ==
    {[k \in 1..n |-> now] : now \in Clock}
        \cup {[k \in 1..n |-> IF k <= passed THEN 0 ELSE 1] : passed \in 1..(n - 1)}

\* The values of a category at which its bands begin: the least value of the
\* range, and every value whose status is not that of the value one step below.
Palette(sensor_type) ==
    {v \in ValueRange(sensor_type) :
        \/ v = Low(sensor_type)
        \/ StatusOf(sensor_type, v) # StatusOf(sensor_type, v - 1)}

\* Value streams of period one (every draw the same) over the palette; an
\* unrecognised sensor type draws nothing.
ConstantStreams(sensor_type) ==
    IF sensor_type \in DocumentedTypes
    THEN {<<v>> : v \in Palette(sensor_type)}
    ELSE {<<>>}

\* Value streams of period one over the whole grid of the category.
GridStreams(sensor_type) == {<<v>> : v \in ValueRange(sensor_type)}

\* Every value stream of period FreeDraws over the palette: the draws at
\* FreeDraws successive positions in every combination, equal draws included.
PatternStreams(sensor_type) == [1..FreeDraws -> Palette(sensor_type)]

\* Every type stream of period n, for the one category that draws types.
TypeStreams(sensor_type, n) ==
    IF sensor_type = "corrosion"
    THEN [1..n -> {CorrosionTypes[j] : j \in DOMAIN CorrosionTypes}]
    ELSE {<<>>}

\* Under the server the values an invocation returns are explored on one
\* clock reading and one constant stream; every stream and clock above is
\* explored on the invocations of the importing program.
DetailClocks == IF serving THEN {0} ELSE Clock

ChartClocks ==
    IF serving THEN {[k \in 1..NumSensors |-> 0]} ELSE ClockReads(NumSensors)

ChartStreams(sensor_type) ==
    IF serving THEN {<<Low(sensor_type)>>} ELSE PatternStreams(sensor_type)

DetailStreams(sensor_type) ==
    IF serving THEN {<<Low(sensor_type)>>} ELSE ConstantStreams(sensor_type)

ChartTypeStreams ==
    IF serving
    THEN {<<CorrosionTypes[1]>>}
    ELSE TypeStreams("corrosion", FreeTypes)

\* The draws an invocation takes from numpy's generator and from the random
\* module's, from entry to return.
InvocationNpDraws(inv) ==
    Series(inv) * NpDraws(inv.sensor_type, inv.hours, inv.interval_minutes)

InvocationPyDraws(inv) == Series(inv) * PyDraws(inv.sensor_type)

\* A call of the importing program is explored when nothing has been drawn
\* since import, and later as long as the draws since import stay within
\* MaxDrawn.
Explored(inv) ==
    \/ np_random = 0 /\ random = 0
    \/ np_random + random + InvocationNpDraws(inv) + InvocationPyDraws(inv)
          <= MaxDrawn

\* The draws the invocations in progress on the threads of S have still to
\* take.
RECURSIVE PendingDraws(_)
PendingDraws(S) ==
    IF S = {}
    THEN 0
    ELSE LET t == CHOOSE x \in S : TRUE
         IN  Pending(running[t]) + PendingDraws(S \ {t})

\* A request is explored as long as the draws since the server started, those
\* the invocations in progress have still to take included, stay within
\* MaxServed.
Served(inv) ==
    np_random + random + PendingDraws(Threads) + InvocationNpDraws(inv)
        <= MaxServed

\* The clicks explored: every bar where the importing program calls a details
\* callback, the bars of the identities of SensorIds under the server.
Clicks(op) ==
    IF op \in UpdateCallbacks
    THEN {None}
    ELSE IF serving THEN SensorIds ELSE ClickData

----------------------------------------------------------------------------
\* The specification.  The importing program calls generate_sensor_data with
\* every combination of arguments on constant streams, with one reading
\* (hours=0) at every value of the grid, and with an hour's series on every
\* stream of the enumerated periods, and the callbacks likewise, one call
\* after the other.  Under the server the requests of the browser are
\* dispatched in any order and run on their threads at once, the draws of one
\* falling between the draws of another.

Next ==
    \/ ~serving /\ Quiet /\ \E sensor_type \in SensorTypes, hours \in Hours,
          interval_minutes \in Intervals, sensor_id \in SensorIds :
          LET inv == Invocation("generate_sensor_data", sensor_type, hours,
                                interval_minutes, sensor_id)
          IN  Explored(inv) /\ Call(inv)
    \/ ~serving /\ Quiet /\ \E op \in Callbacks : \E clickData \in Clicks(op) :
          LET inv == CallbackInvocation(op, clickData)
          IN  Explored(inv) /\ Call(inv)
    \/ serving /\ Idle /\ Free /\ \E op \in Callbacks : \E clickData \in Clicks(op) :
          LET inv == CallbackInvocation(op, clickData)
          IN  Served(inv) /\ Dispatch(inv)
    \/ \E t \in Threads : NpRandom(t)
    \/ \E t \in Threads : RandomUniform(t)
    \/ \E t \in Threads :
          /\ Drawn(t, "generate_sensor_data")
          /\ \E now \in Clock,
                values_stream \in ConstantStreams(running[t].sensor_type),
                types_stream \in TypeStreams(running[t].sensor_type, 1) :
                Generate(t, now, values_stream, types_stream)
    \/ \E t \in Threads :
          /\ Drawn(t, "generate_sensor_data")
          /\ running[t].sensor_type \in WorkingTypes
          /\ running[t].hours = 0
          /\ running[t].interval_minutes = DefaultInterval
          /\ running[t].sensor_id = None
          /\ \E now \in Clock,
                values_stream \in GridStreams(running[t].sensor_type),
                types_stream \in TypeStreams(running[t].sensor_type, 1) :
                Generate(t, now, values_stream, types_stream)
    \/ \E t \in Threads :
          /\ Drawn(t, "generate_sensor_data")
          /\ running[t].sensor_type \in WorkingTypes
          /\ running[t].hours = ChartHours
          /\ running[t].interval_minutes = DefaultInterval
          /\ running[t].sensor_id = None
          /\ \E now \in Clock,
                values_stream \in PatternStreams(running[t].sensor_type),
                types_stream \in TypeStreams(running[t].sensor_type, FreeTypes) :
                Generate(t, now, values_stream, types_stream)
    \/ \E t \in Threads :
          /\ Drawn(t, "update_corrosion_bar_chart")
          /\ \E clock \in ChartClocks,
                values_stream \in ChartStreams("corrosion"),
                types_stream \in ChartTypeStreams :
                update_corrosion_bar_chart(t, clock, values_stream, types_stream)
    \/ \E t \in Threads :
          /\ Drawn(t, "update_pressure_bar_chart")
          /\ \E clock \in ChartClocks,
                values_stream \in ChartStreams("pressure") :
                update_pressure_bar_chart(t, clock, values_stream)
    \/ \E t \in Threads :
          /\ Drawn(t, "update_temperature_bar_chart")
          /\ \E clock \in ChartClocks,
                values_stream \in ChartStreams("temperature") :
                update_temperature_bar_chart(t, clock, values_stream)
    \/ \E t \in Threads :
          /\ Drawn(t, "update_acoustic_bar_chart")
          /\ \E clock \in ChartClocks,
                values_stream \in ChartStreams("acoustic") :
                update_acoustic_bar_chart(t, clock, values_stream)
    \/ \E t \in Threads :
          /\ Drawn(t, "display_corrosion_sensor_details")
          /\ \E now \in DetailClocks, values_stream \in DetailStreams("corrosion"),
                types_stream \in ChartTypeStreams :
                display_corrosion_sensor_details(t, now, values_stream,
                                                 types_stream)
    \/ \E t \in Threads :
          /\ Drawn(t, "display_pressure_sensor_details")
          /\ \E now \in DetailClocks, values_stream \in DetailStreams("pressure") :
                display_pressure_sensor_details(t, now, values_stream)
    \/ \E t \in Threads :
          /\ Drawn(t, "display_temperature_sensor_details")
          /\ \E now \in DetailClocks, values_stream \in DetailStreams("temperature") :
                display_temperature_sensor_details(t, now, values_stream)
    \/ \E t \in Threads :
          /\ Drawn(t, "display_acoustic_sensor_details")
          /\ \E now \in DetailClocks, values_stream \in DetailStreams("acoustic") :
                display_acoustic_sensor_details(t, now, values_stream)
    \/ Discard

Spec == Init /\ [][Next]_vars

----------------------------------------------------------------------------
\* Vocabulary of the properties.

\* generate_sensor_data was called from outside the callbacks.
DirectCall == call.op = "generate_sensor_data"

\* sensor_data holds the frame that generate_sensor_data(call.sensor_type,
\* call.hours, call.interval_minutes, call.sensor_id) returned, the one call
\* of the invocation, made at clock reading ReadAt.
Returned ==
    /\ raised = "none"
    /\ \/ DirectCall
       \/ call.op \in DetailCallbacks /\ call.sensor_id # None

ReadAt == call.clock[1]

RowsOf(frame) == {frame[i] : i \in DOMAIN frame}

\* Every reading the invocation that ran last has produced.
AllRows == RowsOf(sensor_data) \cup RowsOf(df) \cup RowsOf(current_values)

StatusNames == {"Good", "Concern", "Malfunction"}

----------------------------------------------------------------------------
\* The threshold table, band by band, as sets of values.

GoodBand(c) ==
    CASE c = "corrosion" -> {v \in ValueRange(c) : v < 10 * Scale}
      [] c = "pressure" -> {v \in ValueRange(c) : v < 80 * Scale}
      [] c = "temperature" ->
            {v \in ValueRange(c) : -20 * Scale < v /\ v < 120 * Scale}
      [] c = "acoustic" ->
            {v \in ValueRange(c) : 60 * Scale <= v /\ v <= 90 * Scale}

ConcernBand(c) ==
    CASE c = "corrosion" ->
            {v \in ValueRange(c) : 10 * Scale <= v /\ v < 40 * Scale}
      [] c = "pressure" ->
            {v \in ValueRange(c) : 80 * Scale <= v /\ v < 95 * Scale}
      [] c = "temperature" ->
            {v \in ValueRange(c) : -40 * Scale < v /\ v < 140 * Scale}
               \ GoodBand(c)
      [] c = "acoustic" ->
            {v \in ValueRange(c) : 50 * Scale <= v /\ v <= 100 * Scale}
               \ GoodBand(c)

MalfunctionBand(c) ==
    CASE c = "corrosion" -> {v \in ValueRange(c) : v >= 40 * Scale}
      [] c = "pressure" -> {v \in ValueRange(c) : v >= 95 * Scale}
      [] c = "temperature" ->
            {v \in ValueRange(c) : v <= -40 * Scale \/ v >= 140 * Scale}
      [] c = "acoustic" ->
            {v \in ValueRange(c) : v < 50 * Scale \/ v > 100 * Scale}

\* The table as a whole.
BandTable ==
    [c \in WorkingTypes |->
        [Good |-> GoodBand(c), Concern |-> ConcernBand(c),
         Malfunction |-> MalfunctionBand(c)]]

\* The three bands of every category are pairwise disjoint and cover the
\* category's value range.
BandsPartition ==
    \A c \in WorkingTypes :
        /\ BandTable[c].Good \cap BandTable[c].Concern = {}
        /\ BandTable[c].Good \cap BandTable[c].Malfunction = {}
        /\ BandTable[c].Concern \cap BandTable[c].Malfunction = {}
        /\ BandTable[c].Good \cup BandTable[c].Concern
              \cup BandTable[c].Malfunction = ValueRange(c)

\* C1: for corrosion, pressure, temperature and acoustic, every reading's
\* Status is one of Good, Concern, Malfunction and is the band the threshold
\* table assigns to the reading's value; the three bands are pairwise disjoint
\* and cover the category's value range.
C1_StatusIsBand ==
    /\ BandsPartition
    /\ \A c \in WorkingTypes :
          call.sensor_type = c =>
              \A r \in AllRows :
                  /\ r.Value \in ValueRange(c)
                  /\ r.Status \in StatusNames
                  /\ r.Value \in BandTable[c][r.Status]
                  /\ \A s \in StatusNames \ {r.Status} :
                        r.Value \notin BandTable[c][s]

\* A temperature series that holds a Good reading next to a Malfunction
\* reading above the upper threshold, and holds one value at two readings.
C1_Witness ==
    /\ Returned
    /\ call.sensor_type = "temperature"
    /\ \E r \in AllRows : r.Status = "Good"
    /\ \E r \in AllRows : r.Status = "Malfunction" /\ r.Value >= 140 * Scale
    /\ \E j, k \in DOMAIN sensor_data :
          j # k /\ sensor_data[j].Value = sensor_data[k].Value

----------------------------------------------------------------------------
\* C2: a returned series has floor(H*60/I) + 1 readings, strictly increasing
\* timestamps exactly I minutes apart, and first timestamp now - H hours;
\* H=1, I=10 gives 7 readings and H=24, I=10 gives 145.
C2_TimeRange ==
    Returned =>
        LET H == call.hours
            I == call.interval_minutes
            n == Len(sensor_data)
        IN  /\ n = ((H * 60) \div I) + 1
            /\ \A k \in 1..(n - 1) :
                  sensor_data[k + 1].Time - sensor_data[k].Time = I
            /\ \A k \in 1..(n - 1) :
                  sensor_data[k].Time < sensor_data[k + 1].Time
            /\ Cardinality({sensor_data[k].Time : k \in 1..n}) = n
            /\ sensor_data[1].Time = ReadAt - H * 60
            /\ (H = 1 /\ I = 10) => n = 7
            /\ (H = 24 /\ I = 10) => n = 145

\* The call of the example: one hour at ten minutes, seven readings.
C2_Witness ==
    /\ Returned
    /\ DirectCall
    /\ call.hours = 1
    /\ call.interval_minutes = 10
    /\ Len(sensor_data) = 7
    /\ sensor_data[7].Time - sensor_data[1].Time = 60

----------------------------------------------------------------------------
\* C3: a call with a sensor type that is none of corrosion, pressure,
\* temperature, acoustic, flow_rate fails with the invalid-category error
\* (ValueError), returns no series, and fails in no other way.
C3_InvalidCategoryError ==
    (DirectCall /\ call.sensor_type \notin DocumentedTypes) =>
        /\ raised = "ValueError"
        /\ sensor_data = <<>>

----------------------------------------------------------------------------
\* C4: a call with sensor type flow_rate returns a series with one reading
\* per timestamp of the time range, each with a value in [0, 1000] and the
\* Status of the flow-rate thresholds.
C4_FlowRateSeries ==
    (DirectCall /\ call.sensor_type = "flow_rate") =>
        /\ raised = "none"
        /\ Len(sensor_data) = ((call.hours * 60) \div call.interval_minutes) + 1
        /\ \A r \in RowsOf(sensor_data) :
              /\ r.Value \in 0..(1000 * Scale)
              /\ r.Status =
                    IF 100 * Scale < r.Value /\ r.Value < 900 * Scale
                    THEN "Good"
                    ELSE IF 50 * Scale < r.Value /\ r.Value < 950 * Scale
                         THEN "Concern"
                         ELSE "Malfunction"

----------------------------------------------------------------------------
\* C5 as stated: for every H and I the last reading's timestamp is now.
C5_LastIsNow ==
    Returned => sensor_data[Len(sensor_data)].Time = ReadAt

\* C5, amended: the last reading's timestamp is now - ((H*60) mod I) minutes,
\* which is now exactly when H*60 is a multiple of I.
C5_LastIsLastStep ==
    Returned =>
        LET H == call.hours
            I == call.interval_minutes
            last == sensor_data[Len(sensor_data)].Time
        IN  /\ last = ReadAt - ((H * 60) % I)
            /\ last = ReadAt <=> (H * 60) % I = 0
            /\ ReadAt - I < last /\ last <= ReadAt

\* A call whose interval does not divide the duration: the series stops short
\* of now.
C5_Witness ==
    /\ Returned
    /\ call.hours = 1
    /\ call.interval_minutes = 7
    /\ sensor_data[Len(sensor_data)].Time = ReadAt - 4

----------------------------------------------------------------------------
\* C6: a bar-chart callback generates a 1-hour, 10-minute series per sensor
\* identity 0..9 and keeps exactly one reading per identity, the identity's
\* maximum-timestamp reading, with that reading's Value and Status.  The
\* series of identity id starts an hour before the clock reading of its call.
C6_LastPerIdentity ==
    call.op \in UpdateCallbacks =>
        /\ Len(current_values) = 10
        /\ \A id \in 0..9 :
              LET series == SelectSeq(df, LAMBDA r : r.SensorID = id)
                  kept == {g \in DOMAIN current_values :
                              current_values[g].SensorID = id}
              IN  /\ Len(series) = 7
                  /\ series[1].Time = call.clock[id + 1] - 60
                  /\ \A k \in 1..6 : series[k + 1].Time = series[k].Time + 10
                  /\ Cardinality(kept) = 1
                  /\ \A g \in kept :
                        /\ current_values[g] \in RowsOf(series)
                        /\ \A r \in RowsOf(series) : r.Time <= current_values[g].Time
                        /\ current_values[g].Time = series[7].Time
                        /\ current_values[g].Value = series[7].Value
                        /\ current_values[g].Status = series[7].Status

\* A pressure bar chart where, for some identity, the kept reading differs in
\* Value and in Status from an earlier reading of the identity's series, and
\* where the minute passed between two of the ten calls, so that the kept
\* readings of two identities differ in Time.
C6_Witness ==
    /\ call.op = "update_pressure_bar_chart"
    /\ Len(current_values) = 10
    /\ \E g \in DOMAIN current_values, i \in DOMAIN df :
          /\ df[i].SensorID = current_values[g].SensorID
          /\ df[i].Time < current_values[g].Time
          /\ df[i].Value # current_values[g].Value
          /\ df[i].Status # current_values[g].Status
    /\ \E g, h \in DOMAIN current_values :
          current_values[g].Time # current_values[h].Time

----------------------------------------------------------------------------
\* C7: every reading of a corrosion series carries a Type, one of Uniform,
\* Pitting, Galvanic, Crevice, chosen independently of the reading's value:
\* the Type of the k-th reading generated is the k-th type drawn, whatever the
\* values drawn.  Readings of every other category carry none.
C7_TypeTag ==
    /\ \A r \in AllRows :
          IF call.sensor_type = "corrosion"
          THEN /\ "Type" \in DOMAIN r
               /\ r.Type \in {"Uniform", "Pitting", "Galvanic", "Crevice"}
          ELSE "Type" \notin DOMAIN r
    /\ call.sensor_type = "corrosion" =>
          /\ \A k \in DOMAIN sensor_data :
                sensor_data[k].Type =
                    Draw(call.types_stream, 0, Len(sensor_data))[k]
          /\ \A k \in DOMAIN df :
                df[k].Type = Draw(call.types_stream, 0, Len(df))[k]

\* A corrosion bar chart in which two readings of one Value, and so of one
\* Status, carry different types, and two successive readings of an identity
\* carry different types.
C7_Witness ==
    /\ call.op = "update_corrosion_bar_chart"
    /\ \E r1, r2 \in RowsOf(df) :
          r1.Value = r2.Value /\ r1.Type # r2.Type
    /\ \E k \in 1..(Len(df) - 1) :
          /\ df[k].SensorID = df[k + 1].SensorID
          /\ df[k].Type # df[k + 1].Type

----------------------------------------------------------------------------
\* C8: a call without a sensor identity (sensor_id None) uses a random
\* identity: every reading carries the same integer identity, never None.
C8_RandomSensorId ==
    (DirectCall /\ raised = "none" /\ call.sensor_id = None) =>
        /\ \A r \in RowsOf(sensor_data) : r.SensorID # None
        /\ \A r1, r2 \in RowsOf(sensor_data) : r1.SensorID = r2.SensorID

----------------------------------------------------------------------------
\* The boundary cases common to C9 as stated and as amended: corrosion 0.1 ->
\* Concern, 0.4 -> Malfunction; pressure 80 -> Concern, 95 -> Malfunction;
\* temperature -20 and 120 -> Concern, -40 and 140 -> Malfunction.
WorseBandAtThreshold(r) ==
    /\ call.sensor_type = "corrosion" =>
          /\ r.Value = 10 * Scale => r.Status = "Concern"
          /\ r.Value = 40 * Scale => r.Status = "Malfunction"
    /\ call.sensor_type = "pressure" =>
          /\ r.Value = 80 * Scale => r.Status = "Concern"
          /\ r.Value = 95 * Scale => r.Status = "Malfunction"
    /\ call.sensor_type = "temperature" =>
          /\ r.Value \in {-20 * Scale, 120 * Scale} => r.Status = "Concern"
          /\ r.Value \in {-40 * Scale, 140 * Scale} => r.Status = "Malfunction"

\* C9 as stated: in every category a value equal to a threshold falls in the
\* worse band; acoustic 60 and 90 -> Concern, 50 and 100 -> Malfunction.
C9_WorseBandEverywhere ==
    \A r \in AllRows :
        /\ WorseBandAtThreshold(r)
        /\ call.sensor_type = "acoustic" =>
              /\ r.Value \in {60 * Scale, 90 * Scale} => r.Status = "Concern"
              /\ r.Value \in {50 * Scale, 100 * Scale} => r.Status = "Malfunction"

\* C9, amended: for corrosion, pressure and temperature a value equal to a
\* threshold falls in the worse band; the acoustic bands include their
\* boundaries, so 60 and 90 are Good and 50 and 100 are Concern.
C9_ThresholdTies ==
    \A r \in AllRows :
        /\ WorseBandAtThreshold(r)
        /\ call.sensor_type = "acoustic" =>
              /\ r.Value \in {60 * Scale, 90 * Scale} => r.Status = "Good"
              /\ r.Value \in {50 * Scale, 100 * Scale} => r.Status = "Concern"

\* An acoustic series with a reading of exactly 60 dB, which is Good, and one
\* of exactly 50 dB, which is Concern.
C9_Witness ==
    /\ call.sensor_type = "acoustic"
    /\ \E r \in AllRows : r.Value = 60 * Scale /\ r.Status = "Good"
    /\ \E r \in AllRows : r.Value = 50 * Scale /\ r.Status = "Concern"

----------------------------------------------------------------------------
\* The readings an invocation has generated: those of the series of a direct
\* call or of a details callback, or of the ten series of a bar-chart callback.
Generated == Len(sensor_data) + Len(df)

\* The locals of an invocation, before it hands its value over: nothing is
\* held.
NothingHeld ==
    /\ sensor_data = <<>>
    /\ df = <<>>
    /\ current_values = <<>>
    /\ fig = <<>>
    /\ children = <<>>

\* C10 as stated: no call of generate_sensor_data and no callback changes any
\* module-level state (the app, numpy's generator, the random module's
\* generator), and an invocation starts with nothing held from an earlier one.
C10_NoStateAcrossCalls ==
    [][/\ app' = app
       /\ np_random' = np_random
       /\ random' = random
       /\ ~Idle' => Idle /\ NothingHeld]_vars

\* C10, amended: the positions of the two global generators are the only
\* state of the module that changes and persists.  No step of any invocation
\* changes the app.  A generator moves only when one invocation in progress
\* makes one of its calls to it, and then by the values of that call: numpy's
\* by the readings of the series being generated, the random module's by one
\* in a flow_rate call; the step changes nothing else but that invocation's
\* count of calls, whatever other invocation is in progress.  An invocation
\* that returns or raises has by then drawn one value per reading it
\* generated, two per corrosion reading, and one value in a flow_rate call; it
\* hands over nothing held from an earlier invocation, leaves the generators
\* and the other invocations as they are, and every reading it produced lies
\* in its own time range, counted from its own readings of the clock.
C10_OnlyGeneratorsAdvance ==
    [][/\ app' = app
       /\ serving' = serving
       /\ (np_random' # np_random \/ random' # random) =>
             /\ UNCHANGED <<call, raised, sensor_data, df, current_values, fig,
                            children>>
             /\ \E t \in Threads :
                   /\ running[t].op # "idle"
                   /\ running' = [running EXCEPT ![t].drawn = @ + 1]
                   /\ np_random' = np_random
                        + (IF running[t].sensor_type = "flow_rate"
                           THEN 0
                           ELSE ((running[t].hours * 60)
                                    \div running[t].interval_minutes) + 1)
                   /\ random' = random
                        + (IF running[t].sensor_type = "flow_rate" THEN 1 ELSE 0)
       /\ ~Idle' =>
             /\ Idle
             /\ NothingHeld
             /\ np_random' = np_random
             /\ random' = random
             /\ \E t \in Threads :
                   /\ running[t].op = call'.op
                   /\ running[t].sensor_type = call'.sensor_type
                   /\ running[t].sensor_id = call'.sensor_id
                   /\ running' = [running EXCEPT ![t] = NoInvocation]
                   /\ call'.sensor_type \in WorkingTypes =>
                         running[t].drawn
                            * (((call'.hours * 60) \div call'.interval_minutes) + 1)
                         = (IF call'.sensor_type = "corrosion" THEN 2 ELSE 1)
                              * Generated'
                   /\ call'.sensor_type = "flow_rate" => running[t].drawn = 1
                   /\ call'.sensor_type \notin DocumentedTypes =>
                         running[t].drawn = 0
             /\ \A r \in AllRows' :
                   /\ call'.clock[1] - call'.hours * 60 <= r.Time
                   /\ r.Time <= call'.clock[Len(call'.clock)]
       /\ (~Idle /\ Idle') =>
             /\ running' = running
             /\ np_random' = np_random
             /\ random' = random]_vars

\* Under the server a bar-chart callback has returned its figure while
\* another callback, on the other thread, is between two of its calls to
\* numpy's generator: the generator stands past the draws of the invocation
\* that returned, and the app is still the one set at import.
C10_Witness ==
    /\ serving
    /\ call.op \in UpdateCallbacks
    /\ Len(current_values) = NumSensors
    /\ \E t \in Threads :
          /\ running[t].op \in Callbacks
          /\ 0 < running[t].drawn
          /\ running[t].drawn < DrawCalls(running[t])
    /\ np_random > (IF call.sensor_type = "corrosion" THEN 2 ELSE 1) * Generated
    /\ app = Dash

====
